---- MODULE Spec2Model ----
(***************************************************************************)
(* Frequency Set Audio Generator (src/app.py): the pipeline of             *)
(* generate_audio -- parse_frequency_set, fix_frequency, generate_tone,    *)
(* merge_audio / np.concatenate, the int16 conversion and wav.write --     *)
(* as a state machine over exact rational numbers.                         *)
(*                                                                         *)
(* Numbers.  Python floats are modelled as exact rationals [n, d] in       *)
(* lowest terms with d > 0.  Every operation of the code on them (+, -,    *)
(* *, /, halving, comparison, int(), mod 1) is carried out exactly;        *)
(* binary rounding of float64 is not modelled.  np.sin is the one          *)
(* function with no rational value: it is modelled by Bhaskara's rational  *)
(* approximation rounded to a 2^-12 grid (see Sin2Pi).                     *)
(*                                                                         *)
(* Text.  A Python str is a sequence of one-character strings.             *)
(***************************************************************************)
EXTENDS Integers, Sequences, FiniteSets, TLC

(***************************************************************************)
(* Bound of the model: the number of comma-separated tokens typed into     *)
(* the frequency entry.                                                    *)
(***************************************************************************)
MaxTokens == 2

(***************************************************************************)
(* Bound of the limiter's specification: the number of digits of the       *)
(* frequency typed.                                                        *)
(***************************************************************************)
MaxDigits == 4

(* 32767, the int16 scale factor of lines 154 and 159. *)
Int16Max == 32767

-----------------------------------------------------------------------------
(* Exact rational arithmetic standing for Python float arithmetic.         *)

Abs(x) == IF x < 0 THEN -x ELSE x

RECURSIVE Gcd(_, _)
Gcd(a, b) == IF b = 0 THEN a ELSE Gcd(b, a % b)

Rat(n, d) ==
    LET s == IF d < 0 THEN -1 ELSE 1
        g == Gcd(Abs(n), Abs(d))
    IN  [n |-> (s * n) \div g, d |-> (s * d) \div g]

RInt(k) == [n |-> k, d |-> 1]
RZero == RInt(0)
ROne == RInt(1)

RNeg(a) == [n |-> -a.n, d |-> a.d]
RAdd(a, b) ==
    LET g == Gcd(a.d, b.d)
    IN  Rat(a.n * (b.d \div g) + b.n * (a.d \div g), (a.d \div g) * b.d)
RSub(a, b) == RAdd(a, RNeg(b))
RMul(a, b) ==
    LET g1 == Gcd(Abs(a.n), b.d)
        g2 == Gcd(Abs(b.n), a.d)
    IN  Rat((a.n \div g1) * (b.n \div g2), (a.d \div g2) * (b.d \div g1))
(* a / b for b # 0 *)
RDiv(a, b) == RMul(a, Rat(b.d, b.n))
RLess(a, b) == a.n * b.d < b.n * a.d
RLeq(a, b) == a.n * b.d <= b.n * a.d
RAbs(a) == [n |-> Abs(a.n), d |-> a.d]

(* Python int(x): truncation toward zero. *)
TruncInt(a) == IF a.n >= 0 THEN a.n \div a.d ELSE -((-a.n) \div a.d)
(* math.floor(x) *)
FloorInt(a) == a.n \div a.d
(* x mod 1 in [0, 1), as np.mod(x, 1) *)
RFrac(a) == [n |-> a.n % a.d, d |-> a.d]

RECURSIVE Pow10(_)
Pow10(k) == IF k = 0 THEN 1 ELSE 10 * Pow10(k - 1)

-----------------------------------------------------------------------------
(* Text helpers: str.strip, str.split, the `in` test.                      *)

Tail2(s, k) == SubSeq(s, k + 1, Len(s))

Contains(s, ch) == \E i \in 1..Len(s) : s[i] = ch

CountChar(s, ch) == Cardinality({i \in 1..Len(s) : s[i] = ch})

RECURSIVE LStrip(_)
LStrip(s) == IF s # <<>> /\ s[1] = " " THEN LStrip(Tail(s)) ELSE s

RECURSIVE RStrip(_)
RStrip(s) ==
    IF s # <<>> /\ s[Len(s)] = " " THEN RStrip(SubSeq(s, 1, Len(s) - 1)) ELSE s

Strip(s) == RStrip(LStrip(s))

(* Index of the first ch in s, or 0. *)
RECURSIVE FindFrom(_, _, _)
FindFrom(s, ch, i) ==
    IF i > Len(s) THEN 0 ELSE IF s[i] = ch THEN i ELSE FindFrom(s, ch, i + 1)

(* s.split(ch): always at least one part. *)
RECURSIVE Split(_, _)
Split(s, ch) ==
    LET i == FindFrom(s, ch, 1)
    IN  IF i = 0 THEN <<s>>
        ELSE <<SubSeq(s, 1, i - 1)>> \o Split(Tail2(s, i), ch)

-----------------------------------------------------------------------------
(* float(text), lines 63, 70, 71, 73: surrounding blanks are dropped, then *)
(* an optional sign, a decimal mantissa with at least one digit and an     *)
(* optional exponent must make up the whole text.  The result is           *)
(* [ok, val]; ok = FALSE stands for the ValueError float raises.  (The     *)
(* spellings inf, nan and digit-group underscores are not in the alphabet  *)
(* of the model.)                                                          *)

DigitChars == <<"0", "1", "2", "3", "4", "5", "6", "7", "8", "9">>

IsDigit(c) == \E i \in 1..10 : DigitChars[i] = c

DigitVal(c) == (CHOOSE i \in 1..10 : DigitChars[i] = c) - 1

(* The scanner's state: where it is in the number, and what it has read. *)
FloatStart ==
    [phase |-> "start", neg |-> FALSE, mant |-> 0, frac |-> 0, digits |-> 0,
     eneg |-> FALSE, exp |-> 0, edigits |-> 0]

(* One character of the number. *)
FloatStep(st, c) ==
    CASE st.phase = "start" /\ c \in {"+", "-"} ->
            [st EXCEPT !.phase = "int", !.neg = (c = "-")]
      [] st.phase \in {"start", "int"} /\ IsDigit(c) ->
            [st EXCEPT !.phase = "int", !.mant = 10 * @ + DigitVal(c),
                       !.digits = @ + 1]
      [] st.phase \in {"start", "int"} /\ c = "." ->
            [st EXCEPT !.phase = "frac"]
      [] st.phase = "frac" /\ IsDigit(c) ->
            [st EXCEPT !.mant = 10 * @ + DigitVal(c), !.frac = @ + 1,
                       !.digits = @ + 1]
      [] st.phase \in {"int", "frac"} /\ c \in {"e", "E"} /\ st.digits >= 1 ->
            [st EXCEPT !.phase = "expsign"]
      [] st.phase = "expsign" /\ c \in {"+", "-"} ->
            [st EXCEPT !.phase = "exp", !.eneg = (c = "-")]
      [] st.phase \in {"expsign", "exp"} /\ IsDigit(c) ->
            [st EXCEPT !.phase = "exp", !.exp = 10 * @ + DigitVal(c),
                       !.edigits = @ + 1]
      [] OTHER -> [st EXCEPT !.phase = "bad"]

RECURSIVE ScanFloat(_, _)
ScanFloat(s, st) ==
    IF s = <<>> THEN st ELSE ScanFloat(Tail(s), FloatStep(st, s[1]))

(* The number a finished scan stands for: mant * 10^(exp - frac), signed.  *)
FloatValue(st) ==
    LET exp10 == (IF st.eneg THEN -st.exp ELSE st.exp) - st.frac
        sign == IF st.neg THEN -1 ELSE 1
    IN  IF exp10 >= 0 THEN RInt(sign * st.mant * Pow10(exp10))
        ELSE Rat(sign * st.mant, Pow10(-exp10))

FloatAccepted(st) ==
    \/ st.phase \in {"int", "frac"} /\ st.digits >= 1
    \/ st.phase = "exp" /\ st.edigits >= 1

FloatResult(st) ==
    IF FloatAccepted(st) THEN [ok |-> TRUE, val |-> FloatValue(st)]
    ELSE [ok |-> FALSE, val |-> RZero]

ParseFloat(text) == FloatResult(ScanFloat(Strip(text), FloatStart))

-----------------------------------------------------------------------------
(* parse_frequency_set, lines 42-76.                                       *)

Segment(start, end, duration) ==
    [start |-> start, end |-> end, duration |-> duration]

(* ParseToken split on "-" before "=": the dwell is looked for in the     *)
(* last piece only.                                                        *)
ParseToken_DashFirst(part, default_dwell) ==
    LET dashParts == Split(part, "-")
        eqParts == Split(dashParts[Len(dashParts)], "=")
        hasEq == Len(eqParts) > 1
        unpackOk == Len(dashParts) <= 2 /\ Len(eqParts) <= 2
        dwellF == IF hasEq THEN ParseFloat(eqParts[Len(eqParts)])
                  ELSE [ok |-> TRUE, val |-> default_dwell]
        startF == ParseFloat(IF Len(dashParts) > 1 THEN dashParts[1]
                             ELSE eqParts[1])
        endF == ParseFloat(eqParts[1])
    IN  IF unpackOk /\ dwellF.ok /\ startF.ok /\ endF.ok
        THEN [skip |-> FALSE, ok |-> TRUE,
              seg |-> <<Segment(startF.val, endF.val, dwellF.val)>>]
        ELSE [skip |-> FALSE, ok |-> FALSE, seg |-> <<>>]

(* ParseToken taking the first and the last piece of each split(), so that *)
(* pieces in between are dropped instead of raising.                       *)
ParseToken_IgnoreExtraParts(part, default_dwell) ==
    LET hasEq == Contains(part, "=")
        eqParts == Split(part, "=")
        dashParts == Split(eqParts[1], "-")
        dwellF == IF hasEq THEN ParseFloat(eqParts[Len(eqParts)])
                  ELSE [ok |-> TRUE, val |-> default_dwell]
        startF == ParseFloat(dashParts[1])
        endF == ParseFloat(dashParts[Len(dashParts)])
    IN  IF dwellF.ok /\ startF.ok /\ endF.ok
        THEN [skip |-> FALSE, ok |-> TRUE,
              seg |-> <<Segment(startF.val, endF.val, dwellF.val)>>]
        ELSE [skip |-> FALSE, ok |-> FALSE, seg |-> <<>>]

(* Lines 61-75 for one stripped, non-empty part.  ok = FALSE: a           *)
(* ValueError was raised, by float() or by unpacking a split() of more     *)
(* than two parts into two names (lines 62, 69).  Without "=" the dwell    *)
(* is the default; without "-" split() returns the one part, which is      *)
(* both start and end (lines 73-74).                                       *)
ParseToken(part, default_dwell) ==
    LET hasEq == Contains(part, "=")
        eqParts == Split(part, "=")
        freq_part == IF hasEq THEN eqParts[1] ELSE part
        hasDash == Contains(freq_part, "-")
        dashParts == Split(freq_part, "-")
        unpackOk == (hasEq => Len(eqParts) = 2) /\ (hasDash => Len(dashParts) = 2)
        dwellF == IF hasEq THEN ParseFloat(eqParts[Len(eqParts)])
                  ELSE [ok |-> TRUE, val |-> default_dwell]
        startF == ParseFloat(dashParts[1])
        endF == ParseFloat(dashParts[Len(dashParts)])
    IN  IF unpackOk /\ dwellF.ok /\ startF.ok /\ endF.ok
        THEN [skip |-> FALSE, ok |-> TRUE,
              seg |-> <<Segment(startF.val, endF.val, dwellF.val)>>]
        ELSE [skip |-> FALSE, ok |-> FALSE, seg |-> <<>>]

(* Lines 57-59, then ParseToken.  skip: the part is empty after strip(). *)
ParsePart(rawpart, default_dwell) ==
    IF Strip(rawpart) = <<>> THEN [skip |-> TRUE, ok |-> TRUE, seg |-> <<>>]
    ELSE ParseToken(Strip(rawpart), default_dwell)

(* The loop of lines 56-75 over the parts, stopping at the first error.    *)
RECURSIVE ParseParts(_, _)
ParseParts(parts, default_dwell) ==
    IF parts = <<>> THEN [ok |-> TRUE, segments |-> <<>>]
    ELSE LET p == ParsePart(parts[1], default_dwell)
             rest == ParseParts(Tail(parts), default_dwell)
         IN  IF ~p.ok \/ ~rest.ok THEN [ok |-> FALSE, segments |-> <<>>]
             ELSE [ok |-> TRUE, segments |-> p.seg \o rest.segments]

parse_frequency_set(freq_str, default_dwell) ==
    ParseParts(Split(freq_str, ","), default_dwell)

-----------------------------------------------------------------------------
(* fix_frequency, lines 24-40.                                             *)

Waveforms ==
    {"sine", "lilly", "square", "pulse", "sawtooth", "reverse_sawtooth",
     "triangle"}

(* MaxFreq with the triangle grouped with the sawtooth (a quarter of the   *)
(* sample rate).                                                           *)
MaxFreq_TriangleQuarter(waveform, sample_rate) ==
    IF waveform \in {"sine", "lilly"} THEN Rat(sample_rate, 20)
    ELSE IF waveform \in {"pulse", "sawtooth", "reverse_sawtooth", "triangle"}
         THEN Rat(sample_rate, 4)
    ELSE IF waveform = "square" THEN Rat(sample_rate, 2)
    ELSE Rat(sample_rate, 20)

(* lines 28-37 *)
MaxFreq(waveform, sample_rate) ==
    IF waveform \in {"sine", "lilly"} THEN Rat(sample_rate, 20)
    ELSE IF waveform = "triangle" THEN Rat(sample_rate, 8)
    ELSE IF waveform \in {"pulse", "sawtooth", "reverse_sawtooth"}
         THEN Rat(sample_rate, 4)
    ELSE IF waveform = "square" THEN Rat(sample_rate, 2)
    ELSE Rat(sample_rate, 20)

(* lines 38-39: while freq > max_freq: freq /= 2.0 *)
RECURSIVE HalveWhileAbove(_, _)
HalveWhileAbove(freq, max_freq) ==
    IF RLess(max_freq, freq)
    THEN HalveWhileAbove(RDiv(freq, RInt(2)), max_freq)
    ELSE freq

fix_frequency(freq, waveform, sample_rate) ==
    HalveWhileAbove(freq, MaxFreq(waveform, sample_rate))

(* lines 137-143 *)
RECURSIVE FixSegments(_, _, _)
FixSegments(segs, waveform, sample_rate) ==
    IF segs = <<>> THEN <<>>
    ELSE <<Segment(fix_frequency(segs[1].start, waveform, sample_rate),
                   fix_frequency(segs[1].end, waveform, sample_rate),
                   segs[1].duration)>>
         \o FixSegments(Tail(segs), waveform, sample_rate)

-----------------------------------------------------------------------------
(* generate_tone, lines 78-108.                                            *)

(* floor(p * m / q) and the remainder, for 0 <= p <= q and m >= 0, by      *)
(* doubling, so that no intermediate product exceeds 3 * q.                *)
RECURSIVE MulDivMod(_, _, _)
MulDivMod(p, m, q) ==
    IF m = 0 THEN <<0, 0>>
    ELSE LET h == MulDivMod(p, m \div 2, q)
             r == 2 * h[2] + (m % 2) * p
         IN  <<2 * h[1] + r \div q, r % q>>

(* np.sin(2 pi x) for x given by its fractional part frac in [0, 1).       *)
(* With y the position within the half period, Bhaskara's formula          *)
(* 16 y (1 - y) / (5 - 4 y (1 - y)) stands for sin(pi y); the value is     *)
(* cut to a multiple of 2^-12, as a float is cut to its mantissa.          *)
SinGrid == 2 ^ 12

Sin2Pi(frac) ==
    LET upper == RLess(frac, Rat(1, 2))
        y == IF upper THEN RMul(RInt(2), frac)
             ELSE RSub(RMul(RInt(2), frac), ROne)
        c == y.n
        d == y.d
        num == 16 * c * (d - c)
        den == 5 * d * d - 4 * c * (d - c)
        v == Rat(MulDivMod(num, SinGrid, den)[1], SinGrid)
    IN  IF upper THEN v ELSE RNeg(v)

(* scipy.signal.square(2 pi x, duty): 1 while the fractional part of the   *)
(* cycle is below duty, -1 after.                                          *)
Square(frac, duty) == IF RLess(frac, duty) THEN ROne ELSE RInt(-1)

(* scipy.signal.sawtooth(2 pi x, width): rises from -1 to 1 over           *)
(* [0, width), falls from 1 to -1 over [width, 1).                         *)
Sawtooth(frac, width) ==
    IF RLess(frac, width)
    THEN RSub(RDiv(RMul(RInt(2), frac), width), ROne)
    ELSE RDiv(RSub(RAdd(width, ROne), RMul(RInt(2), frac)),
              RSub(ROne, width))

(* lines 88-107: the shape at phase 2 pi x; an unknown waveform falls      *)
(* back to the sine (lines 105-107).                                       *)
Shape(waveform, x) ==
    LET frac == RFrac(x)
    IN  IF waveform = "sine" THEN Sin2Pi(frac)
        ELSE IF waveform = "lilly" THEN Square(frac, Rat(1, 4))
        ELSE IF waveform = "square" THEN Square(frac, Rat(1, 2))
        ELSE IF waveform = "pulse"
             THEN RDiv(RAdd(Square(frac, Rat(1, 20)), ROne), RInt(2))
        ELSE IF waveform = "sawtooth" THEN Sawtooth(frac, ROne)
        ELSE IF waveform = "reverse_sawtooth" THEN Sawtooth(frac, RZero)
        ELSE IF waveform = "triangle" THEN Sawtooth(frac, Rat(1, 2))
        ELSE Sin2Pi(frac)

(* line 84: the number of samples, int(duration * sample_rate) *)
SampleCount(duration, sample_rate) ==
    TruncInt(RMul(duration, RInt(sample_rate)))

(* line 86 divided by 2 pi, at t = i * duration / n (np.linspace with      *)
(* endpoint=False):                                                        *)
(*   start_freq * t + 0.5 * (end_freq - start_freq) * t**2 / duration      *)
PhaseCycles(start_freq, end_freq, duration, n, i) ==
    LET t == RMul(RInt(i), RDiv(duration, RInt(n)))
    IN  RAdd(RMul(start_freq, t),
             RDiv(RMul(RMul(Rat(1, 2), RSub(end_freq, start_freq)),
                       RMul(t, t)),
                  duration))

(* [ok, tone]: ok = FALSE is the ValueError np.linspace raises for a       *)
(* negative number of samples; no sample gives the empty array.            *)
generate_tone(start_freq, end_freq, duration, sample_rate, waveform, amplitude) ==
    LET n == SampleCount(duration, sample_rate)
    IN  IF n < 0 THEN [ok |-> FALSE, tone |-> <<>>]
        ELSE [ok |-> TRUE,
              tone |-> [k \in 1..n |->
                          RMul(amplitude,
                               Shape(waveform,
                                     PhaseCycles(start_freq, end_freq,
                                                 duration, n, k - 1)))]]

-----------------------------------------------------------------------------
(* merge_audio, lines 110-122, and the conversions of lines 154-161.       *)

RECURSIVE SumAt(_, _)
SumAt(audio_list, k) ==
    IF audio_list = <<>> THEN RZero
    ELSE RAdd(audio_list[1][k], SumAt(Tail(audio_list), k))

RECURSIVE MaxAbs(_)
MaxAbs(buf) ==
    IF Len(buf) = 1 THEN RAbs(buf[1])
    ELSE LET m == MaxAbs(Tail(buf))
         IN  IF RLess(m, RAbs(buf[1])) THEN RAbs(buf[1]) ELSE m

SameLength(audio_list) ==
    \A i \in 1..Len(audio_list) : Len(audio_list[i]) = Len(audio_list[1])

(* merge_audio normalizing by the peak of the first buffer instead of the  *)
(* peak of the mix.                                                        *)
merge_audio_PeakOfFirst(audio_list) ==
    IF audio_list = <<>> THEN [status |-> "none", mixed |-> <<>>]
    ELSE IF ~SameLength(audio_list) \/ Len(audio_list[1]) = 0
    THEN [status |-> "error", mixed |-> <<>>]
    ELSE LET mixed == [k \in 1..Len(audio_list[1]) |-> SumAt(audio_list, k)]
             max_val == MaxAbs(audio_list[1])
         IN  [status |-> "ok",
              mixed |-> IF RLess(RZero, max_val)
                        THEN [k \in 1..Len(mixed) |-> RDiv(mixed[k], max_val)]
                        ELSE mixed]

(* status "none": the empty list returns None (line 116); "error": np.sum  *)
(* refuses arrays of unequal length, np.max refuses an empty array.        *)
merge_audio(audio_list) ==
    IF audio_list = <<>> THEN [status |-> "none", mixed |-> <<>>]
    ELSE IF ~SameLength(audio_list) \/ Len(audio_list[1]) = 0
    THEN [status |-> "error", mixed |-> <<>>]
    ELSE LET mixed == [k \in 1..Len(audio_list[1]) |-> SumAt(audio_list, k)]
             max_val == MaxAbs(mixed)
         IN  [status |-> "ok",
              mixed |-> IF RLess(RZero, max_val)
                        THEN [k \in 1..Len(mixed) |-> RDiv(mixed[k], max_val)]
                        ELSE mixed]

(* (x * 32767).astype(np.int16) of one sample: the product cut toward 0.   *)
ToInt16(x) == TruncInt(RMul(x, RInt(Int16Max)))

Quantize(buf) == [k \in 1..Len(buf) |-> ToInt16(buf[k])]

(* np.concatenate of a non-empty list of arrays, line 161 *)
RECURSIVE Concatenate(_)
Concatenate(arrays) ==
    IF arrays = <<>> THEN <<>>
    ELSE arrays[1] \o Concatenate(Tail(arrays))

-----------------------------------------------------------------------------
(* The run of generate_audio (lines 126-165) under the GUI handler         *)
(* GeneratorUI.generate_audio (lines 225-238), which turns any exception   *)
(* into an error box.                                                      *)

VARIABLES
    spec_tokens,       \* the tokens typed into freq_entry, as indices of Tokens
    frequencies,       \* the text of freq_entry: the tokens joined by ","
    waveform,          \* waveform_var
    sample_rate,       \* sample_rate_var
    dwell,             \* the default dwell, float(dwell_entry)
    merge_frequencies, \* merge_var
    pc,                \* the position within generate_audio
    segments,          \* line 131
    fixed_segments,    \* line 137
    tone,              \* the tone of the last generate_tone call
    merged_tones,      \* line 149
    merged,            \* line 153
    audio_segments,    \* line 156
    final_audio,       \* lines 154, 161
    written,           \* wav.write has run (line 164)
    error              \* the exception that ended the run, or "none"

vars ==
    <<spec_tokens, frequencies, waveform, sample_rate, dwell,
      merge_frequencies, pc, segments, fixed_segments, tone, merged_tones,
      merged, audio_segments, final_audio, written, error>>

inputs ==
    <<spec_tokens, frequencies, waveform, sample_rate, dwell,
      merge_frequencies>>

(* The tokens a user can type between commas: the four forms of the        *)
(* docstring (lines 47-51), empty and blank tokens, values that are zero,  *)
(* negative or too short for one sample, and malformed tokens.             *)
Tokens ==
    << <<"1", "4", "4">>,                                 \* 144
       <<"3", "=", "1">>,                                 \* 3=1
       <<" ", "0", "-", "3", " ">>,                       \* " 0-3 "
       <<"1", "-", "3", "=", "1">>,                       \* 1-3=1
       <<"1", "-", "3", "=", "5", "e", "-", "1">>,        \* 1-3=5e-1
       <<>>,                                              \* empty
       <<" ">>,                                           \* blank
       <<"1", "4", "4", "=", "0">>,                       \* 144=0
       <<"1", "4", "4", "=", "-", "5">>,                  \* 144=-5
       <<"3", "=", "-", ".", "1">>,                       \* 3=-.1
       <<".", "5", "=", ".", "1">>,                       \* .5=.1
       <<"-", "3">>,                                      \* -3
       <<"1", "-", "2", "-", "3">>,                       \* 1-2-3
       <<"3", "=", "2", "=", "1">>,                       \* 3=2=1
       <<"1", "e", "-", "3">> >>                          \* 1e-3

TokenSeqs == UNION {[1..n -> 1..Len(Tokens)] : n \in 0..MaxTokens}

(* ",".join(tokens) *)
RECURSIVE Join(_)
Join(toks) ==
    IF toks = <<>> THEN <<>>
    ELSE IF Len(toks) = 1 THEN Tokens[toks[1]]
    ELSE Tokens[toks[1]] \o <<",">> \o Join(Tail(toks))

(* One waveform name outside the menu stands for an unknown identifier.    *)
WaveformNames == Waveforms \cup {"noise"}

SampleRates == {8}

Dwells == {RInt(2)}

Init ==
    /\ spec_tokens \in TokenSeqs
    /\ frequencies = Join(spec_tokens)
    /\ waveform \in WaveformNames
    /\ sample_rate \in SampleRates
    /\ dwell \in Dwells
    /\ merge_frequencies \in BOOLEAN
    /\ pc = "parse"
    /\ segments = <<>>
    /\ fixed_segments = <<>>
    /\ tone = <<>>
    /\ merged_tones = <<>>
    /\ merged = <<>>
    /\ audio_segments = <<>>
    /\ final_audio = <<>>
    /\ written = FALSE
    /\ error = "none"

(* An exception leaves generate_audio: nothing after the raise runs. *)
Raise(kind) ==
    /\ pc' = "error"
    /\ error' = kind

(* line 131 *)
ParseFrequencies ==
    /\ pc = "parse"
    /\ LET r == parse_frequency_set(frequencies, dwell)
       IN  IF r.ok
           THEN /\ segments' = r.segments
                /\ pc' = "fix"
                /\ UNCHANGED error
           ELSE /\ Raise("ValueError: parse")
                /\ UNCHANGED segments
    /\ UNCHANGED <<inputs, fixed_segments, tone, merged_tones, merged,
                   audio_segments, final_audio, written>>

(* lines 137-143 *)
FixFrequencies ==
    /\ pc = "fix"
    /\ fixed_segments' = FixSegments(segments, waveform, sample_rate)
    /\ pc' = "tones"
    /\ UNCHANGED <<inputs, segments, tone, merged_tones, merged,
                   audio_segments, final_audio, written, error>>

(* The duration handed to generate_tone for segment i: the first           *)
(* segment's in the merge branch (lines 148, 151), its own otherwise       *)
(* (line 158).                                                             *)
ToneDuration(fixed, merge, i) ==
    IF merge THEN fixed[1].duration ELSE fixed[i].duration

(* One pass of the loop of lines 150-152 or of lines 157-160. *)
SynthesizeTone ==
    /\ pc = "tones"
    /\ LET done == IF merge_frequencies THEN Len(merged_tones)
                   ELSE Len(audio_segments)
           i == done + 1
       IN  /\ i <= Len(fixed_segments)
           /\ LET r == generate_tone(fixed_segments[i].start,
                                     fixed_segments[i].end,
                                     ToneDuration(fixed_segments,
                                                  merge_frequencies, i),
                                     sample_rate, waveform, ROne)
              IN  IF ~r.ok
                  THEN /\ Raise("ValueError: linspace")
                       /\ UNCHANGED <<tone, merged_tones, audio_segments>>
                  ELSE /\ tone' = r.tone
                       /\ IF merge_frequencies
                          THEN /\ merged_tones' = Append(merged_tones, r.tone)
                               /\ UNCHANGED audio_segments
                          ELSE /\ audio_segments' =
                                      Append(audio_segments, Quantize(r.tone))
                               /\ UNCHANGED merged_tones
                       /\ UNCHANGED <<pc, error>>
    /\ UNCHANGED <<inputs, segments, fixed_segments, merged, final_audio,
                   written>>

(* lines 148, 153-154, once the loop of lines 150-152 is over.  Line 148   *)
(* indexes fixed_segments[0] before the loop: an IndexError when there is  *)
(* no segment.                                                             *)
MergeTones ==
    /\ pc = "tones"
    /\ merge_frequencies
    /\ Len(merged_tones) = Len(fixed_segments)
    /\ IF fixed_segments = <<>>
       THEN /\ Raise("IndexError")
            /\ UNCHANGED <<merged, final_audio>>
       ELSE LET m == merge_audio(merged_tones)
            IN  IF m.status = "error"
                THEN /\ Raise("ValueError: merge")
                     /\ UNCHANGED <<merged, final_audio>>
                ELSE IF m.status = "none"
                THEN /\ Raise("TypeError")
                     /\ UNCHANGED <<merged, final_audio>>
                ELSE /\ merged' = m.mixed
                     /\ final_audio' = Quantize(m.mixed)
                     /\ pc' = "write"
                     /\ UNCHANGED error
    /\ UNCHANGED <<inputs, segments, fixed_segments, tone, merged_tones,
                   audio_segments, written>>

(* ConcatenateSegments with an empty list giving an empty buffer. *)
ConcatenateSegments_AcceptsEmpty ==
    /\ pc = "tones"
    /\ ~merge_frequencies
    /\ Len(audio_segments) = Len(fixed_segments)
    /\ final_audio' = Concatenate(audio_segments)
    /\ pc' = "write"
    /\ UNCHANGED <<inputs, segments, fixed_segments, tone, merged_tones,
                   merged, audio_segments, written, error>>

(* line 161: np.concatenate raises ValueError on an empty list. *)
ConcatenateSegments ==
    /\ pc = "tones"
    /\ ~merge_frequencies
    /\ Len(audio_segments) = Len(fixed_segments)
    /\ IF audio_segments = <<>>
       THEN /\ Raise("ValueError: concatenate")
            /\ UNCHANGED final_audio
       ELSE /\ final_audio' = Concatenate(audio_segments)
            /\ pc' = "write"
            /\ UNCHANGED error
    /\ UNCHANGED <<inputs, segments, fixed_segments, tone, merged_tones,
                   merged, audio_segments, written>>

(* line 164; writing the file is taken to succeed. *)
WriteOutput ==
    /\ pc = "write"
    /\ written' = TRUE
    /\ pc' = "done"
    /\ UNCHANGED <<inputs, segments, fixed_segments, tone, merged_tones,
                   merged, audio_segments, final_audio, error>>

Next ==
    \/ ParseFrequencies
    \/ FixFrequencies
    \/ SynthesizeTone
    \/ MergeTones
    \/ ConcatenateSegments
    \/ WriteOutput

Spec == Init /\ [][Next]_vars

(* The frequency limiter alone: generate_audio up to line 143, for one     *)
(* frequency typed as up to MaxDigits digits, at the sample rates of the   *)
(* menu (line 200) and two low ones.                                       *)
LimitDigits == {"0", "1", "4", "9"}

LimitSampleRates == {8, 20, 48000, 96000, 576000}

InitLimit ==
    /\ spec_tokens = <<>>
    /\ frequencies \in UNION {[1..n -> LimitDigits] : n \in 1..MaxDigits}
    /\ waveform \in WaveformNames
    /\ sample_rate \in LimitSampleRates
    /\ dwell \in Dwells
    /\ merge_frequencies = FALSE
    /\ pc = "parse"
    /\ segments = <<>>
    /\ fixed_segments = <<>>
    /\ tone = <<>>
    /\ merged_tones = <<>>
    /\ merged = <<>>
    /\ audio_segments = <<>>
    /\ final_audio = <<>>
    /\ written = FALSE
    /\ error = "none"

NextLimit ==
    \/ ParseFrequencies
    \/ FixFrequencies

SpecLimit == InitLimit /\ [][NextLimit]_vars

(* The merge branch of lines 146-154 as one function of the corrected      *)
(* segments: [ok, final], ok = FALSE when an exception ends it.            *)
MergeBranch(fixed, rate, shape) ==
    IF fixed = <<>> THEN [ok |-> FALSE, final |-> <<>>]
    ELSE LET r == [i \in 1..Len(fixed) |->
                     generate_tone(fixed[i].start, fixed[i].end,
                                   ToneDuration(fixed, TRUE, i),
                                   rate, shape, ROne)]
             m == merge_audio([i \in 1..Len(fixed) |-> r[i].tone])
         IN  IF (\E i \in 1..Len(fixed) : ~r[i].ok) \/ m.status # "ok"
             THEN [ok |-> FALSE, final |-> <<>>]
             ELSE [ok |-> TRUE, final |-> Quantize(m.mixed)]

-----------------------------------------------------------------------------
(* What the claims speak of.                                               *)

(* The reading of each token of Tokens by the grammar of the docstring     *)
(* (lines 47-51), written out by hand: its form, its numbers, and whether  *)
(* one of its numeric fields is no float.                                  *)
Form(form, f1, f2, d, badfloat) ==
    [form |-> form, f1 |-> f1, f2 |-> f2, d |-> d, badfloat |-> badfloat]

TokenForms ==
    << Form("f", RInt(144), RInt(144), RZero, FALSE),
       Form("f=d", RInt(3), RInt(3), ROne, FALSE),
       Form("f1-f2", RZero, RInt(3), RZero, FALSE),
       Form("f1-f2=d", ROne, RInt(3), ROne, FALSE),
       Form("f1-f2=d", ROne, RInt(3), Rat(1, 2), FALSE),
       Form("empty", RZero, RZero, RZero, FALSE),
       Form("empty", RZero, RZero, RZero, FALSE),
       Form("f=d", RInt(144), RInt(144), RZero, FALSE),
       Form("f=d", RInt(144), RInt(144), RInt(-5), FALSE),
       Form("f=d", RInt(3), RInt(3), Rat(-1, 10), FALSE),
       Form("f=d", Rat(1, 2), Rat(1, 2), Rat(1, 10), FALSE),
       Form("malformed", RZero, RZero, RZero, TRUE),
       Form("malformed", RZero, RZero, RZero, FALSE),
       Form("malformed", RZero, RZero, RZero, FALSE),
       Form("malformed", RZero, RZero, RZero, TRUE) >>

FormOf(i) == TokenForms[spec_tokens[i]]

TokenIndices == 1..Len(spec_tokens)

(* The segments the grammar gives for a list of tokens. *)
RECURSIVE ExpectedSegments(_, _)
ExpectedSegments(toks, default_dwell) ==
    IF toks = <<>> THEN <<>>
    ELSE LET t == TokenForms[toks[1]]
             here == IF t.form = "empty" THEN <<>>
                     ELSE <<Segment(t.f1, t.f2,
                                    IF t.form \in {"f=d", "f1-f2=d"}
                                    THEN t.d ELSE default_dwell)>>
         IN  here \o ExpectedSegments(Tail(toks), default_dwell)

Parsed == pc # "parse" /\ error # "ValueError: parse"

ParseFailed == pc = "error" /\ error = "ValueError: parse"

NothingProduced ==
    /\ ~written
    /\ final_audio = <<>>
    /\ merged_tones = <<>>
    /\ audio_segments = <<>>

(* C1: when every token is well-formed (one of the four forms, or empty),  *)
(* parsing succeeds and returns, in token order, exactly the segment the   *)
(* grammar gives for each non-empty token; empty tokens add nothing.       *)
C1_ParseWellFormed ==
    (pc # "parse" /\ \A i \in TokenIndices : FormOf(i).form # "malformed")
        => /\ Parsed
           /\ segments = ExpectedSegments(spec_tokens, dwell)

C1_Witness ==
    /\ pc = "fix"
    /\ Len(spec_tokens) = 2
    /\ FormOf(1).form = "f1-f2=d"
    /\ FormOf(2).form = "empty"
    /\ Len(segments) = 1

(* The text of a token before its first "=". *)
BeforeEq(t) ==
    IF FindFrom(t, "=", 1) = 0 THEN t ELSE SubSeq(t, 1, FindFrom(t, "=", 1) - 1)

MalformedAsClaimed(k) ==
    /\ TokenForms[k].form # "empty"
    /\ \/ TokenForms[k].badfloat
       \/ CountChar(Tokens[k], "=") > 1
       \/ CountChar(Tokens[k], "-") > 1

MalformedInFrequencyPart(k) ==
    /\ TokenForms[k].form # "empty"
    /\ \/ TokenForms[k].badfloat
       \/ CountChar(Tokens[k], "=") > 1
       \/ CountChar(BeforeEq(Tokens[k]), "-") > 1

(* C2 as stated: a token with a numeric field that is no float, with more  *)
(* than one "=" or with more than one "-" makes parsing fail, and nothing  *)
(* is synthesized or written.                                              *)
C2_Original ==
    (pc # "parse" /\ \E i \in TokenIndices : MalformedAsClaimed(spec_tokens[i]))
        => ParseFailed /\ NothingProduced

(* C2 amended: a token with a numeric field that is no float, with more    *)
(* than one "=", or with more than one "-" before its "=" makes parsing    *)
(* fail, and nothing is synthesized or written, whatever tokens precede.   *)
C2_MalformedTokenAborts ==
    (pc # "parse" /\
     \E i \in TokenIndices : MalformedInFrequencyPart(spec_tokens[i]))
        => ParseFailed /\ NothingProduced

C2_Witness ==
    /\ ParseFailed
    /\ Len(spec_tokens) = 2
    /\ FormOf(1).form = "f1-f2=d"
    /\ CountChar(Tokens[spec_tokens[2]], "-") > 1
    /\ MalformedInFrequencyPart(spec_tokens[2])

(* The table of the claim: the fraction of the sample rate per waveform. *)
ClaimedFraction(w) ==
    CASE w \in {"sine", "lilly"} -> Rat(1, 20)
      [] w = "triangle" -> Rat(1, 8)
      [] w \in {"pulse", "sawtooth", "reverse_sawtooth"} -> Rat(1, 4)
      [] w = "square" -> Rat(1, 2)

(* g = f / 2^k for the smallest k >= 0 with f / 2^k <= limit *)
SmallestOctaveFold(f, g, limit) ==
    \E k \in 0..24 :
        /\ RDiv(f, RInt(2 ^ k)) = g
        /\ RLeq(g, limit)
        /\ k > 0 => RLess(limit, RMul(g, RInt(2)))

LimitedAsClaimed(f, g) ==
    RLess(RZero, f) =>
        /\ SmallestOctaveFold(f, g,
               RMul(RInt(sample_rate), ClaimedFraction(waveform)))
        /\ fix_frequency(g, waveform, sample_rate) = g

Fixed == Parsed /\ pc # "fix"

(* C3: each positive frequency f is replaced by f / 2^k for the smallest   *)
(* k >= 0 that brings it to sample_rate * fraction(waveform) or below, and *)
(* limiting the result again changes nothing.                              *)
C3_LimitIsSmallestOctaveFold ==
    (Fixed /\ waveform \in Waveforms)
        => \A i \in 1..Len(segments) :
              /\ LimitedAsClaimed(segments[i].start, fixed_segments[i].start)
              /\ LimitedAsClaimed(segments[i].end, fixed_segments[i].end)

C3_Witness ==
    /\ Fixed
    /\ waveform = "triangle"
    /\ sample_rate = 48000
    /\ segments[1].start = RInt(9999)
    /\ fixed_segments[1].start = Rat(9999, 2)

(* The duration generate_tone was given for the i-th tone. *)
UsedDuration(i) == ToneDuration(fixed_segments, merge_frequencies, i)

ClaimedCount(i) == FloorInt(RMul(UsedDuration(i), RInt(sample_rate)))

Synthesized ==
    IF merge_frequencies THEN merged_tones ELSE audio_segments

(* C4 as stated: every synthesized buffer has floor(duration * rate)       *)
(* samples, and a count of zero or less raises an error instead of giving  *)
(* an empty buffer to the composition.                                     *)
C4_Original ==
    \A i \in 1..Len(Synthesized) :
        /\ Len(Synthesized[i]) = ClaimedCount(i)
        /\ Len(Synthesized[i]) > 0

RECURSIVE SumCounts(_)
SumCounts(i) == IF i = 0 THEN 0 ELSE ClaimedCount(i) + SumCounts(i - 1)

OwnTone(i) ==
    generate_tone(fixed_segments[i].start, fixed_segments[i].end,
                  fixed_segments[i].duration, sample_rate, waveform, ROne).tone

(* C5 as stated: in sequential mode the final buffer is as long as the sum *)
(* of floor(duration_i * rate), and its i-th consecutive range is the i-th *)
(* segment's quantized tone.                                               *)
C5_Original ==
    (pc = "done" /\ ~merge_frequencies)
        => /\ Len(final_audio) = SumCounts(Len(fixed_segments))
           /\ \A i \in 1..Len(fixed_segments) :
                 SubSeq(final_audio, SumCounts(i - 1) + 1, SumCounts(i))
                     = Quantize(OwnTone(i))

(* The same for runs in which no duration is negative. *)
C5_NonNegativeDurations ==
    (pc = "done" /\ ~merge_frequencies /\
     \A i \in 1..Len(fixed_segments) :
         RLeq(RZero, fixed_segments[i].duration))
        => /\ Len(final_audio) = SumCounts(Len(fixed_segments))
           /\ \A i \in 1..Len(fixed_segments) :
                 SubSeq(final_audio, SumCounts(i - 1) + 1, SumCounts(i))
                     = Quantize(OwnTone(i))

Perms(n) ==
    {p \in [1..n -> 1..n] : \A i, j \in 1..n : p[i] = p[j] => i = j}

Permute(seq, p) == [i \in 1..Len(seq) |-> seq[p[i]]]

SameAfter(p) ==
    MergeBranch(Permute(fixed_segments, p), sample_rate, waveform)
        = [ok |-> TRUE, final |-> final_audio]

(* C6 as stated: in simultaneous mode every permutation of the segments    *)
(* gives the same final buffer.                                            *)
C6_Original ==
    (pc = "done" /\ merge_frequencies)
        => \A p \in Perms(Len(fixed_segments)) : SameAfter(p)

(* C6 amended: in simultaneous mode every permutation of the segments that *)
(* leaves the duration of the first segment unchanged gives the same final *)
(* buffer.                                                                 *)
C6_SameFirstDuration ==
    (pc = "done" /\ merge_frequencies)
        => \A p \in Perms(Len(fixed_segments)) :
              fixed_segments[p[1]].duration = fixed_segments[1].duration
                  => SameAfter(p)

C6_Witness ==
    /\ pc = "done"
    /\ merge_frequencies
    /\ Len(fixed_segments) = 2
    /\ fixed_segments[1].duration = fixed_segments[2].duration
    /\ fixed_segments[1].start # fixed_segments[2].start
    /\ waveform = "sawtooth"

NoSegments == Parsed /\ segments = <<>>

(* C7: when parsing yields no segment the run never completes and nothing  *)
(* is written: once the (empty) loops are over, the only step is the one   *)
(* that raises.                                                            *)
C7_NoSegmentsFails ==
    NoSegments
        => /\ pc \in {"fix", "tones", "error"}
           /\ NothingProduced
           /\ pc = "tones" => /\ ENABLED Next
                              /\ ~ENABLED (Next /\ pc' # "error")

C7_Witness ==
    /\ NoSegments
    /\ pc = "error"
    /\ error = "ValueError: concatenate"
    /\ Len(spec_tokens) = 2
    /\ Len(frequencies) > 1

PositiveSegment(seg) ==
    /\ RLess(RZero, seg.start)
    /\ RLess(RZero, seg.end)
    /\ RLess(RZero, seg.duration)

(* C8 as stated: every parsed segment and every corrected segment has      *)
(* positive frequencies and a positive duration.                           *)
C8_Original ==
    /\ \A i \in 1..Len(segments) : PositiveSegment(segments[i])
    /\ \A i \in 1..Len(fixed_segments) : PositiveSegment(fixed_segments[i])

(* C9 as stated: in simultaneous mode every tone is synthesized with the   *)
(* first segment's duration, so every buffer given to merge_audio, and the *)
(* final buffer, has floor(duration_0 * rate) samples.                     *)
C9_Original ==
    merge_frequencies
        => /\ \A i \in 1..Len(merged_tones) :
                 /\ Len(merged_tones[i]) = ClaimedCount(1)
                 /\ merged_tones[i] =
                        generate_tone(fixed_segments[i].start,
                                      fixed_segments[i].end,
                                      fixed_segments[1].duration,
                                      sample_rate, waveform, ROne).tone
           /\ SameLength(merged_tones)
           /\ pc \in {"write", "done"} => Len(final_audio) = ClaimedCount(1)

(* The same for runs in which the first duration is not negative. *)
C9_NonNegativeFirstDuration ==
    (merge_frequencies /\ Fixed /\ fixed_segments # <<>> /\
     RLeq(RZero, fixed_segments[1].duration))
        => C9_Original

(* q is a nearest integer to x *)
Nearest(q, x) == RLeq(RAbs(RSub(RInt(q), x)), Rat(1, 2))

QuantizedAsClaimed(q, x) ==
    /\ Nearest(q, RMul(x, RInt(Int16Max)))
    /\ -Int16Max <= q /\ q <= Int16Max
    /\ RLess(RAbs(RSub(Rat(q, Int16Max), x)), Rat(1, Int16Max))

(* C10 as stated: every output sample is the integer nearest to            *)
(* s * 32767, lies in [-32767, 32767], and divided by 32767 is within one  *)
(* step of s; s is the sample of the last tone in sequential mode, of the  *)
(* normalized mix in simultaneous mode.                                    *)
C10_Original ==
    /\ (~merge_frequencies /\ audio_segments # <<>>)
          => \A k \in 1..Len(tone) :
                QuantizedAsClaimed(audio_segments[Len(audio_segments)][k],
                                   tone[k])
    /\ (merge_frequencies /\ pc \in {"write", "done"})
          => \A k \in 1..Len(merged) :
                QuantizedAsClaimed(final_audio[k], merged[k])

CutWithinOneStep(q, x) ==
    /\ -Int16Max <= q /\ q <= Int16Max
    /\ RLess(RAbs(RSub(RInt(q), RMul(x, RInt(Int16Max)))), ROne)

(* What holds of the cut toward zero: every output sample lies in          *)
(* [-32767, 32767] and within one step of s * 32767.                       *)
C10_WithinOneStep ==
    /\ (~merge_frequencies /\ audio_segments # <<>>)
          => \A k \in 1..Len(tone) :
                CutWithinOneStep(audio_segments[Len(audio_segments)][k],
                                 tone[k])
    /\ (merge_frequencies /\ pc \in {"write", "done"})
          => /\ Len(final_audio) = Len(merged)
             /\ \A k \in 1..Len(merged) :
                   CutWithinOneStep(final_audio[k], merged[k])

====
